---- MODULE Spec2Model ----
(***************************************************************************)
(* A state-machine model of qmvpa (utils.py, rsa.py, factor.py).           *)
(*                                                                         *)
(* One call is in progress at a time.  `frame` holds the running           *)
(* function's name, its position and its local variables (fields carry the *)
(* names of the Python locals); `heap` maps object references to the       *)
(* mutable arrays they denote (so that aliasing is observable); `calls`    *)
(* logs the calls made to the numerical library routines; `returned` is    *)
(* the sequence of values handed back to the caller so far.                *)
(*                                                                         *)
(* Numbers.  Array entries are integers.  A variance-explained value or    *)
(* threshold t is the real number t / Scale, so the open interval (0,1) is *)
(* 0 < t < Scale.  A mean is the exact fraction [num, den].  A correlation *)
(* coefficient is the exact real sgn * sqrt(num / den) in lowest terms, or *)
(* NaN; floating-point rounding inside the library is not modelled.        *)
(***************************************************************************)
EXTENDS Integers, Sequences, FiniteSets, TLC

VARIABLES frame, heap, calls, returned

vars == <<frame, heap, calls, returned>>

(***************************************************************************)
(* Bounds of the model.                                                    *)
(***************************************************************************)
Scale == 4
MaxLen == 2
MaxComp == 3
MaxN == 3
MaxRows == 3
MaxCols == 2
MaxWin == 3
MaxFeat == 3
MaxEx == 2
MaxSubj == 3
MaxCalls == 2

(***************************************************************************)
(* Generic helpers.                                                        *)
(***************************************************************************)
Idle == [fn |-> "idle"]

RECURSIVE SumSeq(_)
SumSeq(s) == IF s = <<>> THEN 0 ELSE Head(s) + SumSeq(Tail(s))

\* The increasing sequences of length n over lo..hi.
RECURSIVE IncSeqs(_, _, _)
IncSeqs(n, lo, hi) ==
    IF n = 0 THEN {<<>>}
    ELSE UNION {{<<v>> \o t : t \in IncSeqs(n - 1, v + 1, hi)} : v \in lo..hi}

(***************************************************************************)
(* factor.py: chose_n_components                                           *)
(***************************************************************************)
AssertionError == [status |-> "AssertionError"]
IndexError == [status |-> "IndexError"]
Ok(v) == [status |-> "ok", value |-> v]

\* assert len(n_component_list) == len(cum_var_exp)
LengthAssert(n_component_list, cum_var_exp) ==
    Len(n_component_list) = Len(cum_var_exp)

\* Variant of ThresholdAssert that lets a threshold of exactly 0 through.
ThresholdAssertClosedAtZero(var_exp_threshold) ==
    var_exp_threshold >= 0 /\ var_exp_threshold < Scale

\* assert var_exp_threshold > 0 and var_exp_threshold < 1
ThresholdAssert(var_exp_threshold) ==
    var_exp_threshold > 0 /\ var_exp_threshold < Scale

\* Variant of Where with a non-strict comparison.
WhereNotBelow(cum_var_exp, var_exp_threshold) ==
    SelectSeq([i \in 1..Len(cum_var_exp) |-> i - 1],
              LAMBDA id : cum_var_exp[id + 1] >= var_exp_threshold)

\* np.where(cum_var_exp > var_exp_threshold)[0]: the 0-based positions, in
\* increasing order, whose entry is strictly above the threshold.
Where(cum_var_exp, var_exp_threshold) ==
    SelectSeq([i \in 1..Len(cum_var_exp) |-> i - 1],
              LAMBDA id : cum_var_exp[id + 1] > var_exp_threshold)

chose_n_components(n_component_list, cum_var_exp, var_exp_threshold) ==
    IF ~LengthAssert(n_component_list, cum_var_exp) THEN AssertionError
    ELSE IF ~ThresholdAssert(var_exp_threshold) THEN AssertionError
    ELSE LET candidiates_ids == Where(cum_var_exp, var_exp_threshold)
         IN  IF Len(candidiates_ids) = 0
             THEN \* n_component_list[-1]
                  IF Len(n_component_list) = 0 THEN IndexError
                  ELSE Ok(n_component_list[Len(n_component_list)])
             ELSE Ok(n_component_list[candidiates_ids[1] + 1])

KLists == UNION {IncSeqs(n, 1, MaxComp) : n \in 0..MaxLen}
CumVarExps == UNION {[1..n -> 0..Scale] : n \in 0..MaxLen}
Thresholds == (0 - 1)..(Scale + 1)

Call_chose_n_components ==
    /\ frame = Idle
    /\ returned = <<>>
    /\ \E n_component_list \in KLists, cum_var_exp \in CumVarExps,
          var_exp_threshold \in Thresholds :
            frame' = [fn |-> "chose_n_components",
                      n_component_list |-> n_component_list,
                      cum_var_exp |-> cum_var_exp,
                      var_exp_threshold |-> var_exp_threshold]
    /\ UNCHANGED <<heap, calls, returned>>

Return_chose_n_components ==
    /\ frame.fn = "chose_n_components"
    /\ returned' = Append(returned,
            [fn |-> "chose_n_components",
             args |-> frame,
             out |-> chose_n_components(frame.n_component_list,
                                        frame.cum_var_exp,
                                        frame.var_exp_threshold)])
    /\ frame' = Idle
    /\ UNCHANGED <<heap, calls>>

(***************************************************************************)
(* factor.py: fit_pca, fit_pca_thresholded                                 *)
(*                                                                         *)
(* A training set is represented by what PCA reads from it here: its       *)
(* sequence of explained-variance ratios, largest first, which sum to 1    *)
(* (Scale).  A projection is the pair of the fitted model and the data.    *)
(***************************************************************************)
ValueError == [status |-> "ValueError"]

RECURSIVE NonIncSeqs(_, _, _)
\* The non-increasing sequences of length n over 0..hi that sum to total.
NonIncSeqs(n, hi, total) ==
    IF n = 0 THEN (IF total = 0 THEN {<<>>} ELSE {})
    ELSE UNION {{<<v>> \o t : t \in NonIncSeqs(n - 1, v, total - v)} :
                    v \in 0..(IF hi < total THEN hi ELSE total)}

TrainSets == UNION {NonIncSeqs(n, Scale, Scale) : n \in 1..MaxComp}
TestSets == {"test_a", "test_b"}

\* np.cumsum
CumSum(s) == [i \in 1..Len(s) |-> SumSeq(SubSeq(s, 1, i))]

\* PCA(n_components=n_components) fitted on data_train.T
PCA_fit(n_components, data_train) ==
    [n_components |-> n_components,
     explained_variance_ratio_ |-> SubSeq(data_train, 1, n_components),
     fitted_on |-> data_train]

\* pca.transform(data.T).T
PCA_transform(pca, data) == [model |-> pca, data |-> data]

fit_pca(n_components, data_train, data_test) ==
    IF n_components > Len(data_train) THEN ValueError
    ELSE LET pca == PCA_fit(n_components, data_train)
         IN  [status |-> "ok",
              data_train_pca |-> PCA_transform(pca, data_train),
              data_test_pca |-> PCA_transform(pca, data_test),
              pca |-> pca]

fit_pca_thresholded(n_components, var_exp_threshold, data_train, data_test) ==
    LET first == fit_pca(n_components, data_train, data_test)
    IN  IF first.status # "ok" THEN first
        ELSE LET pca_model == first.pca
                 cum_var_exp == CumSum(pca_model.explained_variance_ratio_)
                 candidiates_components == Where(cum_var_exp, var_exp_threshold)
                 n_components_threshold ==
                     IF Len(candidiates_components) = 0
                     THEN n_components
                     ELSE candidiates_components[1]
             IN  fit_pca(n_components_threshold, data_train, data_test)

Call_fit_pca_thresholded ==
    /\ frame = Idle
    /\ returned = <<>>
    /\ \E n_components \in 1..MaxComp, var_exp_threshold \in 1..(Scale - 1),
          data_train \in TrainSets, data_test \in TestSets :
            frame' = [fn |-> "fit_pca_thresholded",
                      n_components |-> n_components,
                      var_exp_threshold |-> var_exp_threshold,
                      data_train |-> data_train,
                      data_test |-> data_test]
    /\ UNCHANGED <<heap, calls, returned>>

Return_fit_pca_thresholded ==
    /\ frame.fn = "fit_pca_thresholded"
    /\ returned' = Append(returned,
            [fn |-> "fit_pca_thresholded",
             args |-> frame,
             out |-> fit_pca_thresholded(frame.n_components,
                                         frame.var_exp_threshold,
                                         frame.data_train,
                                         frame.data_test)])
    /\ frame' = Idle
    /\ UNCHANGED <<heap, calls>>

(***************************************************************************)
(* Arrays.  A 2d array is [shape |-> <<n0, n1>>, a |-> rows]; positions    *)
(* are 0-based as in the source, At reads one.  Arrays live in the heap    *)
(* and are passed by reference.                                            *)
(***************************************************************************)
Array(n0, n1, rows) == [shape |-> <<n0, n1>>, a |-> rows]
At(m, r, c) == m.a[r + 1][c + 1]
Fill(n0, n1, v) == Array(n0, n1, [r \in 1..n0 |-> [c \in 1..n1 |-> v]])
Vals == {0, 1}
Arrays(n0, n1) == {Array(n0, n1, rows) : rows \in [1..n0 -> [1..n1 -> Vals]]}

(***************************************************************************)
(* utils.py: reflect_upper_triangular_part                                 *)
(***************************************************************************)
\* np.triu_indices(n, 1): the positions strictly above the diagonal.
triu_indices(n) == {rc \in (0..(n - 1)) \X (0..(n - 1)) : rc[1] < rc[2]}

\* Variant of AssignUpperFromLower with the two index lists exchanged.
AssignLowerFromUpper(m) ==
    LET idx == triu_indices(m.shape[1])
    IN  [m EXCEPT !.a = [r \in 1..m.shape[1] |-> [c \in 1..m.shape[2] |->
            IF <<c - 1, r - 1>> \in idx THEN At(m, c - 1, r - 1)
            ELSE At(m, r - 1, c - 1)]]]

\* matrix[irows, icols] = matrix[icols, irows]: the right-hand side is
\* gathered into a temporary first, then scattered into the upper triangle.
AssignUpperFromLower(m) ==
    LET idx == triu_indices(m.shape[1])
    IN  [m EXCEPT !.a = [r \in 1..m.shape[1] |-> [c \in 1..m.shape[2] |->
            IF <<r - 1, c - 1>> \in idx THEN At(m, c - 1, r - 1)
            ELSE At(m, r - 1, c - 1)]]]

\* The call's effect on the heap `h` and the reference it returns.
reflect_upper_triangular_part(h, matrix) ==
    [heap |-> [h EXCEPT ![matrix] = AssignUpperFromLower(h[matrix])],
     ret |-> matrix]

Call_reflect_upper_triangular_part ==
    /\ frame = Idle
    /\ returned = <<>>
    /\ \E n \in 0..MaxN : \E M \in Arrays(n, n) :
        /\ heap' = Append(heap, M)
        /\ frame' = [fn |-> "reflect_upper_triangular_part",
                     matrix |-> Len(heap) + 1]
    /\ UNCHANGED <<calls, returned>>

Return_reflect_upper_triangular_part ==
    /\ frame.fn = "reflect_upper_triangular_part"
    /\ LET e == reflect_upper_triangular_part(heap, frame.matrix)
       IN  /\ heap' = e.heap
           /\ returned' = Append(returned,
                [fn |-> "reflect_upper_triangular_part",
                 args |-> frame, heap_before |-> heap, out |-> e.ret])
    /\ frame' = Idle
    /\ UNCHANGED calls

(***************************************************************************)
(* utils.py: window_avg                                                    *)
(***************************************************************************)
ZeroDivisionError == [status |-> "ZeroDivisionError"]
Frac(num, den) == [num |-> num, den |-> den]

\* Variant of NewLength that counts a trailing partial window.
NewLengthRoundedUp(n0, win_size) == (n0 + win_size - 1) \div win_size

\* n0_new = n0 // win_size
NewLength(n0, win_size) == n0 \div win_size

\* matrix[idx_start: idx_end, :]: a slice stops at the last row.
RowSlice(m, idx_start, idx_end) ==
    LET stop == IF idx_end < m.shape[1] THEN idx_end ELSE m.shape[1]
        n == IF stop > idx_start THEN stop - idx_start ELSE 0
    IN  Array(n, m.shape[2], [r \in 1..n |-> m.a[idx_start + r]])

\* np.mean(block, axis=0): per column, the sum over the rows by their number.
MeanAxis0(block) ==
    [c \in 1..block.shape[2] |->
        Frac(SumSeq([r \in 1..block.shape[1] |-> block.a[r][c]]),
             block.shape[1])]

Call_window_avg ==
    /\ frame = Idle
    /\ returned = <<>>
    /\ \E n0 \in 0..MaxRows, n1 \in 1..MaxCols, win_size \in 0..MaxWin :
       \E M \in Arrays(n0, n1) :
        IF win_size = 0
        THEN /\ heap' = Append(heap, M)
             /\ frame' = [fn |-> "window_avg", pc |-> "raise",
                          matrix |-> Len(heap) + 1, win_size |-> win_size]
        ELSE LET n0_new == NewLength(n0, win_size)
             IN  /\ heap' = heap \o <<M, Fill(n0_new, n1, Frac(0, 1))>>
                 /\ frame' = [fn |-> "window_avg", pc |-> "loop",
                              matrix |-> Len(heap) + 1,
                              win_size |-> win_size,
                              n0_new |-> n0_new,
                              matrix_avg |-> Len(heap) + 2,
                              i |-> 0]
    /\ UNCHANGED <<calls, returned>>

Loop_window_avg ==
    /\ frame.fn = "window_avg"
    /\ frame.pc = "loop"
    /\ frame.i < frame.n0_new
    /\ LET idx_start == frame.i * frame.win_size
           idx_end == (frame.i + 1) * frame.win_size
           row == MeanAxis0(RowSlice(heap[frame.matrix], idx_start, idx_end))
       IN  heap' = [heap EXCEPT ![frame.matrix_avg].a[frame.i + 1] = row]
    /\ frame' = [frame EXCEPT !.i = frame.i + 1]
    /\ UNCHANGED <<calls, returned>>

Return_window_avg ==
    /\ frame.fn = "window_avg"
    /\ \/ /\ frame.pc = "loop"
          /\ frame.i = frame.n0_new
          /\ returned' = Append(returned,
                [fn |-> "window_avg", args |-> frame,
                 out |-> Ok(frame.matrix_avg)])
       \/ /\ frame.pc = "raise"
          /\ returned' = Append(returned,
                [fn |-> "window_avg", args |-> frame,
                 out |-> ZeroDivisionError])
    /\ frame' = Idle
    /\ UNCHANGED <<heap, calls>>

(***************************************************************************)
(* Floating-point data and np.corrcoef.                                    *)
(*                                                                         *)
(* A float array holds fractions Frac(num, den); den = 0 is NaN (0.0/0).   *)
(* The Pearson coefficient of two vectors is unchanged when either vector  *)
(* is multiplied by a positive number, so it is computed on the integer    *)
(* vectors obtained by clearing each vector's denominators.  With          *)
(* S(x,y) = N*sum(x*y) - sum(x)*sum(y) the coefficient is                  *)
(* S(x,y) / sqrt(S(x,x)*S(y,y)), which is 0/0 = NaN when either vector has *)
(* zero variance (and for N = 1, where numpy's covariance divides by 0).   *)
(***************************************************************************)
AsFloat(m) == [m EXCEPT !.a = [r \in 1..m.shape[1] |->
                                [c \in 1..m.shape[2] |-> Frac(m.a[r][c], 1)]]]

RECURSIVE GCD(_, _)
GCD(a, b) == IF b = 0 THEN a ELSE GCD(b, a % b)

RECURSIVE ProdSeq(_)
ProdSeq(s) == IF s = <<>> THEN 1 ELSE Head(s) * ProdSeq(Tail(s))

Sign(x) == IF x > 0 THEN 1 ELSE IF x < 0 THEN 0 - 1 ELSE 0

NaN == [sgn |-> 0, num |-> 0, den |-> 0]
\* The real number sgn * sqrt(num / den), in lowest terms.
Root(sgn, num, den) ==
    IF num = 0 THEN [sgn |-> 0, num |-> 0, den |-> 1]
    ELSE LET g == GCD(num, den)
         IN  [sgn |-> sgn, num |-> num \div g, den |-> den \div g]
Zero == Root(0, 0, 1)
One == Root(1, 1, 1)

HasNaN(v) == \E i \in 1..Len(v) : v[i].den = 0
\* v multiplied by the product of its denominators: an integer vector.
Cleared(v) ==
    LET P == ProdSeq([i \in 1..Len(v) |-> v[i].den])
    IN  [i \in 1..Len(v) |-> v[i].num * (P \div v[i].den)]

S(x, y) == Len(x) * SumSeq([i \in 1..Len(x) |-> x[i] * y[i]])
           - SumSeq(x) * SumSeq(y)

Pearson(u, v) ==
    IF HasNaN(u) \/ HasNaN(v) THEN NaN
    ELSE LET x == Cleared(u)
             y == Cleared(v)
         IN  IF S(x, x) = 0 \/ S(y, y) = 0 THEN NaN
             ELSE Root(Sign(S(x, y)), S(x, y) * S(x, y), S(x, x) * S(y, y))

Transpose(m) ==
    Array(m.shape[2], m.shape[1],
          [c \in 1..m.shape[2] |-> [r \in 1..m.shape[1] |-> m.a[r][c]]])

\* np.corrcoef(x, y) for 2d x and y: the rows of x, then those of y, are the
\* variables; entry (i, j) is the Pearson coefficient of variables i and j.
corrcoef(x, y) ==
    LET V == x.a \o y.a
    IN  Array(Len(V), Len(V),
              [i \in 1..Len(V) |-> [j \in 1..Len(V) |-> Pearson(V[i], V[j])]])

Min(a, b) == IF a < b THEN a ELSE b

\* m[r0:r1, c0:c1] with None written as the axis length; slices are clamped.
Slice(m, r0, r1, c0, c1) ==
    LET rs == Min(r0, m.shape[1])
        re == Min(r1, m.shape[1])
        cs == Min(c0, m.shape[2])
        ce == Min(c1, m.shape[2])
    IN  Array(re - rs, ce - cs,
              [r \in 1..(re - rs) |-> [c \in 1..(ce - cs) |->
                    m.a[rs + r][cs + c]]])

(***************************************************************************)
(* rsa.py: inter_RSM, within_RSMs                                          *)
(***************************************************************************)
\* Variant of inter_RSM that correlates rows (features), not columns.
inter_RSM_untransposed(m1, m2) ==
    IF m1.shape # m2.shape THEN AssertionError
    ELSE LET n_examples == m1.shape[2]
             full == corrcoef(m1, m2)
         IN  Ok(Slice(full, 0, n_examples,
                      n_examples, full.shape[2]))

inter_RSM(m1, m2) ==
    IF m1.shape # m2.shape THEN AssertionError
    ELSE LET n_examples == m1.shape[2]
             full == corrcoef(Transpose(m1), Transpose(m2))
         IN  Ok(Slice(full, 0, n_examples,
                      n_examples, full.shape[2]))

\* rsms = [inter_RSM(Xs[s], Xs[s]) for s in range(num_subjects)]
within_RSMs(Xs) ==
    LET num_subjects == Len(Xs)
    IN  [s \in 1..num_subjects |-> inter_RSM(Xs[s], Xs[s])]

\* Activation matrices (features by examples).
Activations ==
    UNION {Arrays(f, e) : f \in 1..MaxFeat, e \in 1..MaxEx}

\* Three subjects' activation matrices of one shape (3 features by 2
\* examples); the third has a constant first column, the fourth has three
\* identical rows.
SubjA == AsFloat(Array(3, 2, <<(<<0, 1>>), (<<1, 0>>), (<<1, 1>>)>>))
SubjB == AsFloat(Array(3, 2, <<(<<1, 1>>), (<<0, 0>>), (<<0, 1>>)>>))
SubjC == AsFloat(Array(3, 2, <<(<<1, 0>>), (<<1, 1>>), (<<1, 0>>)>>))
SubjD == AsFloat(Array(3, 2, <<(<<1, 0>>), (<<1, 0>>), (<<1, 0>>)>>))
Subjects == {SubjA, SubjB, SubjC}
SubjectLists == UNION {[1..n -> Subjects] : n \in 0..MaxSubj}

Call_inter_RSM ==
    /\ frame = Idle
    /\ returned = <<>>
    /\ \E X \in Activations :
        frame' = [fn |-> "inter_RSM", m1 |-> AsFloat(X), m2 |-> AsFloat(X)]
    /\ UNCHANGED <<heap, calls, returned>>

Return_inter_RSM ==
    /\ frame.fn = "inter_RSM"
    /\ returned' = Append(returned,
            [fn |-> "inter_RSM", args |-> frame,
             out |-> inter_RSM(frame.m1, frame.m2)])
    /\ frame' = Idle
    /\ UNCHANGED <<heap, calls>>

Call_within_RSMs ==
    /\ frame = Idle
    /\ returned = <<>>
    /\ \E Xs \in SubjectLists : frame' = [fn |-> "within_RSMs", Xs |-> Xs]
    /\ UNCHANGED <<heap, calls, returned>>

Return_within_RSMs ==
    /\ frame.fn = "within_RSMs"
    /\ returned' = Append(returned,
            [fn |-> "within_RSMs", args |-> frame,
             out |-> within_RSMs(frame.Xs)])
    /\ frame' = Idle
    /\ UNCHANGED <<heap, calls>>

(***************************************************************************)
(* Loops.  A nested loop `for i in range(n): for j in inner[i]` visits the *)
(* pairs <<i, j>> in the order NestedLoop gives; frame.todo holds the      *)
(* pairs still to visit.                                                   *)
(***************************************************************************)
\* np.arange(lo, hi) and range(lo, hi)
arange(lo, hi) == [t \in 1..(hi - lo) |-> lo + t - 1]

NestedLoop(n, inner) ==
    LET f[i \in 0..n] ==
            IF i = 0 THEN <<>>
            ELSE f[i - 1] \o [t \in 1..Len(inner[i - 1]) |->
                                <<i - 1, inner[i - 1][t]>>]
    IN  f[n]

\* heap h with entry (i, j) of the array at ref set to v
Store(h, ref, i, j, v) == [h EXCEPT ![ref].a[i + 1][j + 1] = v]

(***************************************************************************)
(* rsa.py: correlate_2RSMs, correlate_RSMs                                 *)
(***************************************************************************)
\* np.reshape(rsm, (-1,)): the rows one after the other, as one variable.
Reshape1(rsm) ==
    LET n1 == rsm.shape[2]
        N == rsm.shape[1] * n1
    IN  Array(1, N, <<[k \in 1..N |->
                        rsm.a[((k - 1) \div n1) + 1][((k - 1) % n1) + 1]]>>)

correlate_2RSMs(rsm1, rsm2) ==
    At(corrcoef(Reshape1(rsm1), Reshape1(rsm2)), 0, 1)

\* Variant of correlate_RSMs_inner that stops before the diagonal.
correlate_RSMs_inner_strict(i) == arange(0, i)

\* for j in np.arange(0, i+1, 1)
correlate_RSMs_inner(i) == arange(0, i + 1)

\* Representational similarity matrices (2 by 2); RsmC is constant.
RsmA == AsFloat(Array(2, 2, <<(<<1, 0>>), (<<0, 1>>)>>))
RsmB == AsFloat(Array(2, 2, <<(<<1, 1>>), (<<0, 1>>)>>))
RsmC == AsFloat(Array(2, 2, <<(<<1, 1>>), (<<1, 1>>)>>))
RsmLists == UNION {[1..n -> {RsmA, RsmB, RsmC}] : n \in 0..MaxSubj}

Call_correlate_RSMs ==
    /\ frame = Idle
    /\ returned = <<>>
    /\ \E rsms \in RsmLists :
        LET num_subjects == Len(rsms)
        IN  /\ heap' = Append(heap, Fill(num_subjects, num_subjects, Zero))
            /\ frame' = [fn |-> "correlate_RSMs", pc |-> "loop",
                         rsms |-> rsms,
                         num_subjects |-> num_subjects,
                         rsm_corrs |-> Len(heap) + 1,
                         todo |-> NestedLoop(num_subjects,
                                    [i \in 0..(num_subjects - 1) |->
                                        correlate_RSMs_inner(i)])]
    /\ UNCHANGED <<calls, returned>>

Loop_correlate_RSMs ==
    /\ frame.fn = "correlate_RSMs"
    /\ frame.pc = "loop"
    /\ frame.todo # <<>>
    /\ LET i == Head(frame.todo)[1]
           j == Head(frame.todo)[2]
       IN  /\ heap' = Store(heap, frame.rsm_corrs, i, j,
                            correlate_2RSMs(frame.rsms[i + 1],
                                            frame.rsms[j + 1]))
           /\ calls' = Append(calls, [fn |-> "correlate_2RSMs",
                                      at |-> <<i, j>>,
                                      rsm1 |-> frame.rsms[i + 1],
                                      rsm2 |-> frame.rsms[j + 1]])
    /\ frame' = [frame EXCEPT !.todo = Tail(frame.todo)]
    /\ UNCHANGED returned

Reflect_correlate_RSMs ==
    /\ frame.fn = "correlate_RSMs"
    /\ frame.pc = "loop"
    /\ frame.todo = <<>>
    /\ LET e == reflect_upper_triangular_part(heap, frame.rsm_corrs)
       IN  /\ heap' = e.heap
           /\ frame' = [frame EXCEPT !.pc = "return", !.rsm_corrs = e.ret]
    /\ UNCHANGED <<calls, returned>>

Return_correlate_RSMs ==
    /\ frame.fn = "correlate_RSMs"
    /\ frame.pc = "return"
    /\ returned' = Append(returned,
            [fn |-> "correlate_RSMs", args |-> frame,
             out |-> frame.rsm_corrs])
    /\ frame' = Idle
    /\ UNCHANGED <<heap, calls>>

(***************************************************************************)
(* rsa.py: inter_RSMs                                                      *)
(***************************************************************************)
\* Variant of LeaveOneOutMask that keeps the left-out subject.
LeaveNoneOutMask(n, loo_idx) == [k \in 1..n |-> TRUE]

\* np.arange(len(matrix_list)) != loo_idx
LeaveOneOutMask(n, loo_idx) == [k \in 1..n |-> (k - 1) # loo_idx]

\* matrix_array[mask]: the entries whose mask is True, in order.
RECURSIVE SelectByMask(_, _)
SelectByMask(xs, mask) ==
    IF xs = <<>> THEN <<>>
    ELSE (IF Head(mask) THEN <<Head(xs)>> ELSE <<>>)
         \o SelectByMask(Tail(xs), Tail(mask))

\* np.mean(selected, axis=0) for arrays of the given shape holding numbers of
\* denominator 1: the entrywise sum over the number of arrays (0/0 if none).
MeanOverSubjects(selected, shape) ==
    Array(shape[1], shape[2],
          [r \in 1..shape[1] |-> [c \in 1..shape[2] |->
              Frac(SumSeq([k \in 1..Len(selected) |-> selected[k].a[r][c].num]),
                   Len(selected))]])

\* np.mean(intersubj_rsms, axis=0): each entry is the sum of the listed
\* coefficients over their number, kept as the terms and the divisor; the
\* mean of an empty list is a NaN scalar.
MeanOfRSMs(intersubj_rsms) ==
    IF intersubj_rsms = <<>> THEN [terms |-> <<>>, den |-> 0]
    ELSE LET shape == intersubj_rsms[1].shape
         IN  Array(shape[1], shape[2],
                [r \in 1..shape[1] |-> [c \in 1..shape[2] |->
                    [terms |-> [k \in 1..Len(intersubj_rsms) |->
                                    intersubj_rsms[k].a[r][c]],
                     den |-> Len(intersubj_rsms)]]])

Call_inter_RSMs ==
    /\ frame = Idle
    /\ returned = <<>>
    /\ \E matrix_list \in SubjectLists :
        frame' = [fn |-> "inter_RSMs",
                  matrix_list |-> matrix_list,
                  matrix_array |-> matrix_list,
                  intersubj_rsms |-> <<>>,
                  loo_idx |-> 0]
    /\ UNCHANGED <<heap, calls, returned>>

Loop_inter_RSMs ==
    /\ frame.fn = "inter_RSMs"
    /\ frame.loo_idx < Len(frame.matrix_list)
    /\ LET mask == LeaveOneOutMask(Len(frame.matrix_list), frame.loo_idx)
           mean_Hs == MeanOverSubjects(
                          SelectByMask(frame.matrix_array, mask),
                          frame.matrix_array[1].shape)
           m1 == frame.matrix_array[frame.loo_idx + 1]
       IN  /\ calls' = Append(calls, [fn |-> "inter_RSM",
                                      m1 |-> m1, m2 |-> mean_Hs])
           /\ frame' = [frame EXCEPT
                !.intersubj_rsms = Append(@, inter_RSM(m1, mean_Hs).value),
                !.loo_idx = @ + 1]
    /\ UNCHANGED <<heap, returned>>

Return_inter_RSMs ==
    /\ frame.fn = "inter_RSMs"
    /\ frame.loo_idx = Len(frame.matrix_list)
    /\ returned' = Append(returned,
            [fn |-> "inter_RSMs", args |-> frame,
             out |-> MeanOfRSMs(frame.intersubj_rsms)])
    /\ frame' = Idle
    /\ UNCHANGED <<heap, calls>>

(***************************************************************************)
(* rsa.py: inter_procrustes                                                *)
(*                                                                         *)
(* scipy's procrustes(a, b) rejects inputs of different shapes and inputs  *)
(* whose rows are all equal (zero norm once centred); otherwise its third  *)
(* result is the disparity of the pair, kept here as the term `of <<a,b>>`.*)
(***************************************************************************)
NoDisparity == [zero |-> TRUE, of |-> <<>>]
Disparity(a, b) == [zero |-> FALSE, of |-> <<a, b>>]
AllRowsEqual(m) == \A r \in 1..m.shape[1] : m.a[r] = m.a[1]

procrustes(data1, data2) ==
    IF data1.shape # data2.shape THEN ValueError
    ELSE IF AllRowsEqual(data1) \/ AllRowsEqual(data2) THEN ValueError
    ELSE Ok(Disparity(data1, data2))

\* Variant of inter_procrustes_inner that includes the diagonal.
inter_procrustes_inner_with_diagonal(i) == arange(0, i + 1)

\* for j in np.arange(0, i)
inter_procrustes_inner(i) == arange(0, i)

ProcrustesLists == UNION {[1..n -> {SubjA, SubjB, SubjD}] : n \in 0..MaxSubj}

Call_inter_procrustes ==
    /\ frame = Idle
    /\ returned = <<>>
    /\ \E matrix_array \in ProcrustesLists :
        LET n_nets == Len(matrix_array)
        IN  /\ heap' = Append(heap, Fill(n_nets, n_nets, NoDisparity))
            /\ frame' = [fn |-> "inter_procrustes", pc |-> "loop",
                         matrix_array |-> matrix_array,
                         n_nets |-> n_nets,
                         D |-> Len(heap) + 1,
                         todo |-> NestedLoop(n_nets,
                                    [i \in 0..(n_nets - 1) |->
                                        inter_procrustes_inner(i)])]
    /\ UNCHANGED <<calls, returned>>

Loop_inter_procrustes ==
    /\ frame.fn = "inter_procrustes"
    /\ frame.pc = "loop"
    /\ frame.todo # <<>>
    /\ LET i == Head(frame.todo)[1]
           j == Head(frame.todo)[2]
           res == procrustes(frame.matrix_array[i + 1],
                             frame.matrix_array[j + 1])
       IN  /\ calls' = Append(calls, [fn |-> "procrustes", at |-> <<i, j>>])
           /\ IF res.status = "ok"
              THEN /\ heap' = Store(heap, frame.D, i, j, res.value)
                   /\ frame' = [frame EXCEPT !.todo = Tail(frame.todo)]
              ELSE /\ heap' = heap
                   /\ frame' = [frame EXCEPT !.pc = "raise"]
    /\ UNCHANGED returned

Return_inter_procrustes ==
    /\ frame.fn = "inter_procrustes"
    /\ \/ /\ frame.pc = "loop"
          /\ frame.todo = <<>>
          /\ returned' = Append(returned,
                [fn |-> "inter_procrustes", args |-> frame,
                 out |-> Ok(frame.D)])
       \/ /\ frame.pc = "raise"
          /\ returned' = Append(returned,
                [fn |-> "inter_procrustes", args |-> frame,
                 out |-> ValueError])
    /\ frame' = Idle
    /\ UNCHANGED <<heap, calls>>

(***************************************************************************)
(* factor.py: fit_srm                                                      *)
(*                                                                         *)
(* The shared response model is an object on the heap.  Fitting is         *)
(* deterministic (the library seeds its random state with a constant) and  *)
(* is kept as what it is computed from: w_[s] records the feature count    *)
(* and the data the model was fitted on, `fits` lists the data of every    *)
(* fit.  Projecting subject s's data x gives the term [w |-> w_[s], x].    *)
(***************************************************************************)
NotFittedError == [status |-> "NotFittedError"]

\* SRM(features=n_components)
SRM(features) == [features |-> features, w_ |-> <<>>, fits |-> <<>>]

SRM_fit(srm, X) ==
    [srm EXCEPT !.w_ = [s \in 1..Len(X) |->
                            [features |-> srm.features, subject |-> s,
                             fitted_from |-> X]],
                !.fits = Append(@, X)]

\* srm.transform(X): reads the model, leaves it as it is.
SRM_transform(srm, X) ==
    [srm |-> srm,
     out |-> IF srm.fits = <<>> THEN NotFittedError
             ELSE IF Len(X) # Len(srm.w_) THEN ValueError
             ELSE Ok([s \in 1..Len(X) |-> [w |-> srm.w_[s], x |-> X[s]]])]

\* srm.fit_transform(X): fit(X), then transform(X).
SRM_fit_transform(srm, X) == SRM_transform(SRM_fit(srm, X), X)

\* Variant of fit_srm_test that fits again, on the test data.
fit_srm_test_refit(srm, data_test) == SRM_fit_transform(srm, data_test)

\* data_test_shared = srm.transform(data_test)
fit_srm_test(srm, data_test) == SRM_transform(srm, data_test)

\* data_train_shared = srm.fit_transform(data_train)
fit_srm_train(srm, data_train) == SRM_fit_transform(srm, data_train)

DataSets == {<<SubjA, SubjB>>, <<SubjB, SubjC>>}

Call_fit_srm ==
    /\ frame = Idle
    /\ Len(returned) < MaxCalls
    /\ \A k \in 1..Len(returned) : returned[k].fn = "fit_srm"
    /\ \E n_components \in 1..MaxComp,
          data_train \in DataSets, data_test \in DataSets :
        frame' = [fn |-> "fit_srm", pc |-> "construct",
                  n_components |-> n_components,
                  data_train |-> data_train,
                  data_test |-> data_test]
    /\ UNCHANGED <<heap, calls, returned>>

Construct_fit_srm ==
    /\ frame.fn = "fit_srm"
    /\ frame.pc = "construct"
    /\ heap' = Append(heap, SRM(frame.n_components))
    /\ frame' = [fn |-> "fit_srm", pc |-> "fit_transform",
                 n_components |-> frame.n_components,
                 data_train |-> frame.data_train,
                 data_test |-> frame.data_test,
                 srm |-> Len(heap) + 1]
    /\ UNCHANGED <<calls, returned>>

FitTransform_fit_srm ==
    /\ frame.fn = "fit_srm"
    /\ frame.pc = "fit_transform"
    /\ LET e == fit_srm_train(heap[frame.srm], frame.data_train)
       IN  /\ heap' = [heap EXCEPT ![frame.srm] = e.srm]
           /\ frame' = [fn |-> "fit_srm", pc |-> "transform",
                        n_components |-> frame.n_components,
                        data_train |-> frame.data_train,
                        data_test |-> frame.data_test,
                        srm |-> frame.srm,
                        data_train_shared |-> e.out]
    /\ UNCHANGED <<calls, returned>>

Transform_fit_srm ==
    /\ frame.fn = "fit_srm"
    /\ frame.pc = "transform"
    /\ LET e == fit_srm_test(heap[frame.srm], frame.data_test)
       IN  /\ heap' = [heap EXCEPT ![frame.srm] = e.srm]
           /\ frame' = [fn |-> "fit_srm", pc |-> "return",
                        n_components |-> frame.n_components,
                        data_train |-> frame.data_train,
                        data_test |-> frame.data_test,
                        srm |-> frame.srm,
                        data_train_shared |-> frame.data_train_shared,
                        data_test_shared |-> e.out]
    /\ UNCHANGED <<calls, returned>>

Return_fit_srm ==
    /\ frame.fn = "fit_srm"
    /\ frame.pc = "return"
    /\ returned' = Append(returned,
            [fn |-> "fit_srm", args |-> frame,
             out |-> [data_train_shared |-> frame.data_train_shared,
                      data_test_shared |-> frame.data_test_shared,
                      srm |-> frame.srm]])
    /\ frame' = Idle
    /\ UNCHANGED <<heap, calls>>

(***************************************************************************)
(* The machine.                                                            *)
(***************************************************************************)
Init ==
    /\ frame = Idle
    /\ heap = <<>>
    /\ calls = <<>>
    /\ returned = <<>>

Next ==
    \/ Call_chose_n_components
    \/ Return_chose_n_components
    \/ Call_fit_pca_thresholded
    \/ Return_fit_pca_thresholded
    \/ Call_reflect_upper_triangular_part
    \/ Return_reflect_upper_triangular_part
    \/ Call_window_avg
    \/ Loop_window_avg
    \/ Return_window_avg
    \/ Call_inter_RSM
    \/ Return_inter_RSM
    \/ Call_within_RSMs
    \/ Return_within_RSMs
    \/ Call_correlate_RSMs
    \/ Loop_correlate_RSMs
    \/ Reflect_correlate_RSMs
    \/ Return_correlate_RSMs
    \/ Call_inter_RSMs
    \/ Loop_inter_RSMs
    \/ Return_inter_RSMs
    \/ Call_inter_procrustes
    \/ Loop_inter_procrustes
    \/ Return_inter_procrustes
    \/ Call_fit_srm
    \/ Construct_fit_srm
    \/ FitTransform_fit_srm
    \/ Transform_fit_srm
    \/ Return_fit_srm

Spec == Init /\ [][Next]_vars

(***************************************************************************)
(* Claims.                                                                 *)
(***************************************************************************)
ChoseReturns == {r \in {returned[i] : i \in 1..Len(returned)} :
                    r.fn = "chose_n_components"}

ChosePre(a) ==
    /\ Len(a.n_component_list) = Len(a.cum_var_exp)
    /\ Len(a.n_component_list) > 0
    /\ a.var_exp_threshold > 0
    /\ a.var_exp_threshold < Scale

Exceeding(a) == {i \in 1..Len(a.cum_var_exp) :
                    a.cum_var_exp[i] > a.var_exp_threshold}

\* C1: for equal-length non-empty k_list and cum_var_exp and a threshold
\* strictly between 0 and 1, chose_n_components returns k_list[i] for the
\* smallest i with cum_var_exp[i] > threshold, and the last entry of k_list
\* when no entry exceeds the threshold.
C1_FirstExceedingOrLast ==
    \A r \in ChoseReturns :
        ChosePre(r.args) =>
            /\ r.out.status = "ok"
            /\ IF Exceeding(r.args) = {}
               THEN r.out.value =
                        r.args.n_component_list[Len(r.args.n_component_list)]
               ELSE \E i \in Exceeding(r.args) :
                        /\ \A j \in Exceeding(r.args) : i <= j
                        /\ r.out.value = r.args.n_component_list[i]

\* A call whose first entry equals the threshold (so does not exceed it) and
\* whose second entry exceeds it: the second entry of k_list is returned.
C1_Witness ==
    \E r \in ChoseReturns :
        /\ ChosePre(r.args)
        /\ Len(r.args.cum_var_exp) = 2
        /\ r.args.cum_var_exp[1] = r.args.var_exp_threshold
        /\ r.args.cum_var_exp[2] > r.args.var_exp_threshold
        /\ r.out = Ok(r.args.n_component_list[2])

\* C3: chose_n_components fails with an assertion violation exactly when the
\* two lengths differ or the threshold is not strictly inside (0,1); the
\* bounds 0 and 1 themselves are rejected.
C3_AssertionIffPreconditionBroken ==
    \A r \in ChoseReturns :
        (r.out.status = "AssertionError") <=>
            \/ Len(r.args.n_component_list) # Len(r.args.cum_var_exp)
            \/ r.args.var_exp_threshold <= 0
            \/ r.args.var_exp_threshold >= Scale

\* A call with matching lengths that is rejected for a threshold of exactly 0.
C3_Witness ==
    \E r \in ChoseReturns :
        /\ Len(r.args.n_component_list) = Len(r.args.cum_var_exp)
        /\ Len(r.args.n_component_list) > 0
        /\ r.args.var_exp_threshold = 0
        /\ r.out = AssertionError
PcaReturns == {r \in {returned[i] : i \in 1..Len(returned)} :
                  r.fn = "fit_pca_thresholded"}

\* The cumulative explained variance of the first c components.
CumVar(data_train, c) == SumSeq(SubSeq(data_train, 1, c))

EnoughCounts(a) == {c \in 1..a.n_components :
                       CumVar(a.data_train, c) > a.var_exp_threshold}

\* C2: the component count of the final re-fit is the smallest count c in
\* 1..k whose cumulative explained variance over the first c components
\* exceeds the threshold, and the requested k when no such count exists.
C2_RefitUsesSmallestSufficientCount ==
    \A r \in PcaReturns :
        r.out.status = "ok" =>
            IF EnoughCounts(r.args) = {}
            THEN r.out.pca.n_components = r.args.n_components
            ELSE \E c \in EnoughCounts(r.args) :
                    /\ \A d \in EnoughCounts(r.args) : c <= d
                    /\ r.out.pca.n_components = c
Returns(fn) == {r \in {returned[i] : i \in 1..Len(returned)} : r.fn = fn}

\* C4: after reflect_upper_triangular_part(M) on a square M, every entry
\* (col,row) above the diagonal equals the pre-call entry (row,col), the
\* diagonal and the lower triangle are unchanged, the result equals its own
\* transpose, and the returned matrix is the argument object itself.
C4_ReflectInPlace ==
    \A r \in Returns("reflect_upper_triangular_part") :
        LET old == r.heap_before[r.args.matrix]
            new == heap[r.out]
            n == old.shape[1]
        IN  /\ r.out = r.args.matrix
            /\ Len(heap) = Len(r.heap_before)
            /\ new.shape = old.shape
            /\ \A row \in 0..(n - 1), col \in 0..(n - 1) :
                /\ row > col => At(new, col, row) = At(old, row, col)
                /\ row >= col => At(new, row, col) = At(old, row, col)
                /\ At(new, row, col) = At(new, col, row)

\* A 3-by-3 matrix that was not symmetric before the call and whose lower
\* triangle holds both values.
C4_Witness ==
    \E r \in Returns("reflect_upper_triangular_part") :
        LET old == r.heap_before[r.args.matrix]
        IN  /\ old.shape = <<3, 3>>
            /\ At(old, 0, 1) # At(old, 1, 0)
            /\ At(old, 1, 2) # At(old, 2, 1)
            /\ At(old, 2, 0) # At(old, 2, 1)
            /\ heap[r.out] # old

BlockSum(m, i, win, c) ==
    SumSeq([k \in 1..win |-> At(m, i * win + k - 1, c)])

SelfRSMs ==
    {<<r.args.m1, r.out>> : r \in Returns("inter_RSM")}
    \cup UNION {{<<r.args.Xs[s], r.out[s]>> : s \in 1..Len(r.args.Xs)} :
                    r \in Returns("within_RSMs")}

Column(X, i) == [r \in 1..X.shape[1] |-> X.a[r][i + 1].num]
ConstantColumn(X, i) ==
    \A r \in 1..X.shape[1] : X.a[r][i + 1] = X.a[1][i + 1]

\* N*N times the sum of products of deviations from the means.
Dev(x, y) ==
    SumSeq([k \in 1..Len(x) |->
        (Len(x) * x[k] - SumSeq(x)) * (Len(y) * y[k] - SumSeq(y))])

\* v is the Pearson correlation of the integer vectors x and y.
IsPearson(v, x, y) ==
    /\ v.den > 0
    /\ v.sgn = Sign(Dev(x, y))
    /\ v.num * Dev(x, x) * Dev(y, y) = v.den * Dev(x, y) * Dev(x, y)

SelfRSMShape(p) ==
    /\ p[2].status = "ok"
    /\ p[2].value.shape = <<p[1].shape[2], p[1].shape[2]>>

\* C7 as stated: for every X, constant columns included, inter_RSM(X, X) is
\* a symmetric examples-by-examples matrix with 1.0 on the diagonal.
C7_SelfRSMUnitDiagonalForEveryX ==
    \A p \in SelfRSMs :
        /\ SelfRSMShape(p)
        /\ \A i \in 0..(p[1].shape[2] - 1) : At(p[2].value, i, i) = One

\* C7 amended: for every X without a constant column, inter_RSM(X, X) is a
\* symmetric examples-by-examples matrix whose entry (i,j) is the Pearson
\* correlation of columns i and j of X and whose diagonal is 1; for every X
\* the shape is examples by examples.
C7_SelfRSMUnitDiagonalWithoutConstantColumns ==
    \A p \in SelfRSMs :
        LET X == p[1]
            n == X.shape[2]
        IN  /\ SelfRSMShape(p)
            /\ (\A i \in 0..(n - 1) : ~ConstantColumn(X, i)) =>
                \A i \in 0..(n - 1), j \in 0..(n - 1) :
                    /\ IsPearson(At(p[2].value, i, j),
                                 Column(X, i), Column(X, j))
                    /\ At(p[2].value, i, j) = At(p[2].value, j, i)
                    /\ At(p[2].value, i, i) = One

\* A 3-by-2 matrix without constant columns whose two columns are
\* correlated by -1/2.
C7_Witness ==
    \E p \in SelfRSMs :
        /\ p[1].shape = <<3, 2>>
        /\ \A i \in 0..1 : ~ConstantColumn(p[1], i)
        /\ p[2].status = "ok"
        /\ At(p[2].value, 0, 1) = Root(0 - 1, 1, 4)
        /\ At(p[2].value, 0, 0) = One
\* The numerators of a float array's entries, row after row.
Flat(m) ==
    LET f[r \in 0..m.shape[1]] ==
            IF r = 0 THEN <<>>
            ELSE f[r - 1] \o [c \in 1..m.shape[2] |-> m.a[r][c].num]
    IN  f[m.shape[1]]

\* v is the correlation coefficient numpy gives for x and y: Pearson's, or
\* NaN when one of them has zero variance.
IsCorrelation(v, x, y) ==
    IF Dev(x, x) = 0 \/ Dev(y, y) = 0 THEN v = NaN ELSE IsPearson(v, x, y)

LowerPairs(n) == {ij \in (0..(n - 1)) \X (0..(n - 1)) : ij[2] <= ij[1]}
StrictLowerPairs(n) == {ij \in (0..(n - 1)) \X (0..(n - 1)) : ij[2] < ij[1]}
UpperPairs(n) == {ij \in (0..(n - 1)) \X (0..(n - 1)) : ij[1] < ij[2]}

\* C6: correlate_RSMs(rsms) returns an n-by-n symmetric matrix whose entry
\* (i,j), j <= i, is correlate_2RSMs(rsms[i], rsms[j]); correlate_2RSMs is
\* called once for each pair j <= i and for no other pair (n(n+1)/2 calls);
\* each entry above the diagonal is a copy of its mirror entry, and stays at
\* its initial 0 until the loops have filled the whole lower triangle.
C6_LowerComputedUpperMirrored ==
    /\ \A r \in Returns("correlate_RSMs") :
        LET rsms == r.args.rsms
            n == Len(rsms)
            M == heap[r.out]
        IN  /\ M.shape = <<n, n>>
            /\ \A ij \in LowerPairs(n) :
                /\ IsCorrelation(At(M, ij[1], ij[2]),
                                 Flat(rsms[ij[1] + 1]), Flat(rsms[ij[2] + 1]))
                /\ At(M, ij[2], ij[1]) = At(M, ij[1], ij[2])
            /\ 2 * Len(calls) = n * (n + 1)
            /\ {calls[k].at : k \in 1..Len(calls)} = LowerPairs(n)
            /\ \A k \in 1..Len(calls) :
                /\ calls[k].fn = "correlate_2RSMs"
                /\ calls[k].rsm1 = rsms[calls[k].at[1] + 1]
                /\ calls[k].rsm2 = rsms[calls[k].at[2] + 1]
    /\ (frame.fn = "correlate_RSMs" /\ frame.pc = "loop") =>
        /\ \A ij \in UpperPairs(frame.num_subjects) :
                At(heap[frame.rsm_corrs], ij[1], ij[2]) = Zero
        /\ \A k \in 1..Len(calls) : calls[k].at \in LowerPairs(frame.num_subjects)

\* Three RSMs, the third constant: entry (1,0) and its mirror are
\* sqrt(1/3), the diagonal is 1 for the first two and NaN for the third.
C6_Witness ==
    \E r \in Returns("correlate_RSMs") :
        /\ r.args.rsms = <<RsmA, RsmB, RsmC>>
        /\ At(heap[r.out], 1, 0) = Root(1, 1, 3)
        /\ At(heap[r.out], 0, 1) = Root(1, 1, 3)
        /\ At(heap[r.out], 1, 1) = One
        /\ At(heap[r.out], 2, 2) = NaN

\* The sum of f[x] over the x in set.
RECURSIVE SumOver(_, _)
SumOver(set, f) ==
    IF set = {} THEN 0
    ELSE LET x == CHOOSE y \in set : TRUE
         IN  f[x] + SumOver(set \ {x}, f)

\* The pointwise mean of every matrix of Xs except the one at position i.
LooMean(Xs, i) ==
    LET others == (0..(Len(Xs) - 1)) \ {i}
        shape == Xs[1].shape
    IN  Array(shape[1], shape[2],
            [r \in 1..shape[1] |-> [c \in 1..shape[2] |->
                Frac(SumOver(others, [j \in others |-> Xs[j + 1].a[r][c].num]),
                     Cardinality(others))]])

\* C9: inter_RSMs on n >= 1 matrices computes, for every subject i, exactly
\* one RSM, inter_RSM(matrices[i], mean of matrices[j] over all j # i), and
\* returns the pointwise mean of these n RSMs; with n = 1 the reference mean
\* is over nothing and is NaN, and so is the result.
C9_LeaveOneOutMean ==
    \A r \in Returns("inter_RSMs") :
        LET Xs == r.args.matrix_list
            n == Len(Xs)
            rsms == r.args.intersubj_rsms
        IN  n >= 1 =>
            LET e == Xs[1].shape[2]
            IN  /\ Len(calls) = n
                /\ Len(rsms) = n
                /\ \A i \in 0..(n - 1) :
                    /\ calls[i + 1].m1 = Xs[i + 1]
                    /\ calls[i + 1].m2 = LooMean(Xs, i)
                    /\ Ok(rsms[i + 1]) = inter_RSM(Xs[i + 1], LooMean(Xs, i))
                /\ r.out.shape = <<e, e>>
                /\ \A a \in 0..(e - 1), b \in 0..(e - 1) :
                    /\ At(r.out, a, b).den = n
                    /\ At(r.out, a, b).terms =
                            [k \in 1..n |-> At(rsms[k], a, b)]
                    /\ n = 1 => /\ At(rsms[1], a, b) = NaN
                                /\ \A row \in 1..Xs[1].shape[1] :
                                    calls[1].m2.a[row][a + 1].den = 0

\* Three different subjects: the reference for the first is the sum of the
\* other two over 2, and its RSM has an entry that is a proper fraction.
C9_Witness ==
    \E r \in Returns("inter_RSMs") :
        /\ r.args.matrix_list = <<SubjA, SubjB, SubjC>>
        /\ calls[1].m2.a = <<(<<Frac(2, 2), Frac(1, 2)>>),
                             (<<Frac(1, 2), Frac(1, 2)>>),
                             (<<Frac(1, 2), Frac(1, 2)>>)>>
        /\ At(r.out, 0, 0).terms[1] = Root(0 - 1, 1, 1)
        /\ At(r.out, 0, 0).den = 3

DiagonalAndUpperZero(D, n) ==
    \A i \in 0..(n - 1), j \in 0..(n - 1) :
        j >= i => At(D, i, j) = NoDisparity

\* C10: inter_procrustes returns an n-by-n matrix D whose entry (i,j), j < i,
\* is the Procrustes disparity of (matrices[i], matrices[j]), computed once;
\* every diagonal and upper entry is 0 at every point of the computation and
\* in the result, which is not symmetrized.
C10_StrictLowerTriangleOnly ==
    /\ frame.fn = "inter_procrustes" =>
        /\ heap[frame.D].shape = <<frame.n_nets, frame.n_nets>>
        /\ DiagonalAndUpperZero(heap[frame.D], frame.n_nets)
    /\ \A r \in Returns("inter_procrustes") :
        LET Xs == r.args.matrix_array
            n == Len(Xs)
            D == heap[r.args.D]
        IN  /\ DiagonalAndUpperZero(D, n)
            /\ \A k \in 1..Len(calls) : calls[k].at \in StrictLowerPairs(n)
            /\ \A k \in 1..Len(calls), l \in 1..Len(calls) :
                    calls[k].at = calls[l].at => k = l
            /\ r.out.status = "ok" =>
                /\ r.out.value = r.args.D
                /\ D.shape = <<n, n>>
                /\ {calls[k].at : k \in 1..Len(calls)} = StrictLowerPairs(n)
                /\ \A ij \in StrictLowerPairs(n) :
                    /\ At(D, ij[1], ij[2]) =
                            Disparity(Xs[ij[1] + 1], Xs[ij[2] + 1])
                    /\ At(D, ij[2], ij[1]) # At(D, ij[1], ij[2])

\* Three subjects: three disparities below the diagonal, in argument order.
C10_Witness ==
    \E r \in Returns("inter_procrustes") :
        /\ r.args.matrix_array = <<SubjA, SubjB, SubjA>>
        /\ r.out.status = "ok"
        /\ Len(calls) = 3
        /\ At(heap[r.out.value], 2, 1) = Disparity(SubjA, SubjB)
        /\ At(heap[r.out.value], 1, 2) = NoDisparity

\* C8: fit_srm fits the model exactly once, on train only, before test is
\* transformed; transforming test leaves the model as fitted; so two calls
\* that differ only in test return equal models and equal transformed
\* train data.
C8_TestNeverReachesTheModel ==
    /\ (frame.fn = "fit_srm" /\ frame.pc \in {"transform", "return"}) =>
        heap[frame.srm].fits = <<frame.data_train>>
    /\ \A r \in Returns("fit_srm") :
        LET srm == heap[r.out.srm]
        IN  /\ srm.fits = <<r.args.data_train>>
            /\ \A s \in 1..Len(srm.w_) :
                srm.w_[s].fitted_from = r.args.data_train
            /\ r.out.data_test_shared.status = "ok"
            /\ \A s \in 1..Len(r.args.data_test) :
                /\ r.out.data_test_shared.value[s].x = r.args.data_test[s]
                /\ r.out.data_test_shared.value[s].w = srm.w_[s]
    /\ \A r1 \in Returns("fit_srm"), r2 \in Returns("fit_srm") :
        (/\ r1.args.n_components = r2.args.n_components
         /\ r1.args.data_train = r2.args.data_train) =>
            /\ heap[r1.out.srm] = heap[r2.out.srm]
            /\ r1.out.data_train_shared = r2.out.data_train_shared

\* Two finished calls with the same k and train and different test.
C8_Witness ==
    /\ Len(returned) = 2
    /\ returned[1].fn = "fit_srm"
    /\ returned[2].fn = "fit_srm"
    /\ returned[1].args.n_components = returned[2].args.n_components
    /\ returned[1].args.data_train = returned[2].args.data_train
    /\ returned[1].args.data_test # returned[2].args.data_test
    /\ returned[1].args.data_test # returned[1].args.data_train
    /\ returned[1].out.srm # returned[2].out.srm
====
